---- MODULE Spec2Model ----
(***************************************************************************)
(* LLM observability backend: the call-log / cost-log stores, the write    *)
(* path POST /llm/log-call and the metrics aggregation engine              *)
(* (backend/services/metrics_service.py).                                  *)
(*                                                                         *)
(* Units.  The code computes with floats; the model computes with exact    *)
(* integers in fixed units:                                                *)
(*   time              ticks, TicksPerDay ticks to a day                   *)
(*   latency_ms        milliseconds                                        *)
(*   estimated_cost    1e-8 $                                              *)
(*   total_cost, cost  1e-4 $   (the code's round(x, 4))                   *)
(*   average_latency   1e-2 ms  (the code's round(x, 2))                   *)
(*   error_rate        1e-2 %   (the code's round(x, 2))                   *)
(***************************************************************************)
EXTENDS Integers, Sequences, FiniteSets, TLC

VARIABLES
    llm_call_logs,  \* table llm_call_logs: sequence of rows, row i has id i
    cost_logs,      \* table cost_logs: sequence of rows
    pending,        \* ids of CallLogs whose log-call request is between its two commits
    now,            \* datetime.utcnow(), in ticks
    resp,           \* the metrics response computed on the current snapshot, until returned
    wrapper_pending,\* ids of CallLogs whose call_llm is between _log_successful_call and _log_cost
    feedback,       \* table feedback: sequence of rows
    users,          \* table users: sequence of rows, row i has id i
    models,         \* table llm_models: sequence of rows, row i has id i
    system_settings,\* table system_settings: sequence of rows
    creating        \* the handlers that found a row missing and have not committed it yet

vars == <<llm_call_logs, cost_logs, pending, now, resp, wrapper_pending, feedback,
          users, models, system_settings, creating>>

\* the tables of the accounts, the model catalogue and the settings, and the
\* handlers at work on them
admin_vars == <<users, models, system_settings, creating>>

----------------------------------------------------------------------------
\* Bounds of the model

\* the number of CallLogs ever inserted
MaxLogs == 3
\* the last tick of the clock
MaxNow == 3
\* the resolution of the clock
TicksPerDay == 2
\* the largest days parameter requested
MaxDays == 2
\* the number of write requests that are between their two commits at once
MaxInFlight == 1

\* users.id of the two accounts init_db creates (admin, viewer)
Users == {1, 2}

\* the days query parameter
DaysValues == 1..MaxDays

\* llm_models.id -> cost_per_1k_tokens in units of 1e-8 $, as seeded by init_db
\* (gpt-4 0.03, gpt-3.5-turbo 0.001, claude-3-sonnet 0.003,
\*  claude-3-haiku 0.00025, claude-3-opus 0.015)
llm_models == <<3000000, 100000, 300000, 25000, 1500000>>

\* the e-mail addresses of the two accounts init_db creates
AdminEmail == "admin@company.com"
ViewerEmail == "user@company.com"

\* the rows of users after init_db on an empty database
SeededUsers ==
    << [id |-> 1, email |-> AdminEmail,  role |-> "admin"],
       [id |-> 2, email |-> ViewerEmail, role |-> "viewer"] >>

\* init_db's models_to_add: name and cost_per_1k_tokens, in the order added
models_to_add ==
    << [name |-> "gpt-4",           cost_per_1k_tokens |-> llm_models[1]],
       [name |-> "gpt-3.5-turbo",   cost_per_1k_tokens |-> llm_models[2]],
       [name |-> "claude-3-sonnet", cost_per_1k_tokens |-> llm_models[3]],
       [name |-> "claude-3-haiku",  cost_per_1k_tokens |-> llm_models[4]],
       [name |-> "claude-3-opus",   cost_per_1k_tokens |-> llm_models[5]] >>

\* the rows of llm_models after init_db on an empty database
SeededModels ==
    [i \in DOMAIN models_to_add |->
        [id |-> i, name |-> models_to_add[i].name,
         cost_per_1k_tokens |-> models_to_add[i].cost_per_1k_tokens]]

\* the SystemSettings row with the given id, as get_settings and init_db create it
DefaultSettings(id) ==
    [id |-> id, claude_haiku_45_enabled |-> FALSE, max_tokens_per_request |-> 4096,
     enable_caching |-> TRUE, updated_by |-> <<>>]

\* Request bodies of POST /llm/log-call (LLMCallLogCreate) that each user sends.
\* model_id 9 names no row of llm_models.  User 1 sends every body; user 2,
\* the other tenant, sends two of them.
RequestBodies ==
    << [model_id |-> 1, total_tokens |-> 100, latency_ms |-> 50,   status |-> "success",
        error_message |-> <<>>],
       [model_id |-> 1, total_tokens |-> 200, latency_ms |-> 100,  status |-> "success",
        error_message |-> <<>>],
       [model_id |-> 4, total_tokens |-> 150, latency_ms |-> 1000, status |-> "error",
        error_message |-> <<"provider_error">>],
       [model_id |-> 4, total_tokens |-> 150, latency_ms |-> 200,  status |-> "timeout",
        error_message |-> <<"timeout">>],
       [model_id |-> 9, total_tokens |-> 200, latency_ms |-> 500,  status |-> "success",
        error_message |-> <<>>] >>

Requests(u) ==
    IF u = 1 THEN {RequestBodies[i] : i \in 1..Len(RequestBodies)}
    ELSE {RequestBodies[2], RequestBodies[3]}

\* resp when no metrics request is being served.  A metrics request computes its
\* response from the store in one step; the response stays in resp, and the
\* store and the clock stay as it saw them, until Return.
NoResp == [op |-> "none"]

----------------------------------------------------------------------------
\* Helpers: Python / SQL primitives

\* sum(...) over a sequence of integers
RECURSIVE SumSeq(_)
SumSeq(s) == IF s = <<>> THEN 0 ELSE Head(s) + SumSeq(Tail(s))

\* round(num / den, k) expressed on integers: the integer nearest to num/den,
\* a tie going to the even neighbour (den > 0)
RoundHalfEven(num, den) ==
    LET q == num \div den
        r == num % den
    IN  IF 2 * r < den THEN q
        ELSE IF 2 * r > den THEN q + 1
        ELSE IF q % 2 = 0 THEN q ELSE q + 1

\* round(cost, 4): units of 1e-8 $ to units of 1e-4 $
Round4(cost) == RoundHalfEven(cost, 10000)

\* .date() / func.date(): the UTC calendar date of a timestamp, as a day number
\* (ISO dates are fixed width, so their string order is the order of the days)
DateOf(t) == t \div TicksPerDay

\* the elements of a finite set of integers in ascending order
RECURSIVE SortAsc(_)
SortAsc(S) ==
    IF S = {} THEN <<>>
    ELSE LET m == CHOOSE x \in S : \A y \in S : x <= y
         IN  <<m>> \o SortAsc(S \ {m})

----------------------------------------------------------------------------
\* MetricsService

\* cutoff_date = datetime.utcnow() - timedelta(days=days)
cutoff_date(utcnow, days) == utcnow - days * TicksPerDay

\* faulty variant of InWindow: the filter on user_id is left out
InWindow_AnyUser(call, user_id, cutoff) ==
    call.created_at >= cutoff

\* faulty variant of InWindow: the boundary is excluded
InWindow_Strict(call, user_id, cutoff) ==
    /\ call.user_id = user_id
    /\ call.created_at > cutoff

\* and_(LLMCallLog.user_id == user_id, LLMCallLog.created_at >= cutoff_date)
InWindow(call, user_id, cutoff) ==
    /\ call.user_id = user_id
    /\ call.created_at >= cutoff

\* db.query(LLMCallLog).filter(...).all()
QueryCalls(logs, user_id, days, utcnow) ==
    SelectSeq(logs, LAMBDA call : InWindow(call, user_id, cutoff_date(utcnow, days)))

\* the CostLog rows whose llm_call_id is the call's id
CostLogsOf(costs, call) ==
    SelectSeq(costs, LAMBDA c : c.llm_call_id = call.id)

\* call.cost_log.estimated_cost for call in calls if call.cost_log
\* (relationship uselist=False: the first matching row, or None)
CallCosts(calls, costs) ==
    LET withCost == SelectSeq(calls, LAMBDA call : CostLogsOf(costs, call) # <<>>)
    IN  [i \in 1..Len(withCost) |-> Head(CostLogsOf(costs, withCost[i])).estimated_cost]

\* faulty variant of ErrorCount: every status but "success" counts as an error
ErrorCount_NotSuccess(calls) ==
    Len(SelectSeq(calls, LAMBDA call : call.status # "success"))

\* sum(1 for call in calls if call.status == "error")
ErrorCount(calls) ==
    Len(SelectSeq(calls, LAMBDA call : call.status = "error"))

\* faulty variant of AverageLatency: the mean is truncated, not rounded
AverageLatency_Floor(calls) ==
    (100 * SumSeq([i \in 1..Len(calls) |-> calls[i].latency_ms])) \div Len(calls)

\* sum(call.latency_ms for call in calls) / len(calls), rounded to 2 decimals
AverageLatency(calls) ==
    RoundHalfEven(100 * SumSeq([i \in 1..Len(calls) |-> calls[i].latency_ms]), Len(calls))

\* (error_count / len(calls)) * 100, rounded to 2 decimals
ErrorRate(errors, total) ==
    RoundHalfEven(errors * 100 * 100, total)

\* the MetricsSummary returned when the query finds no call
EmptySummary ==
    [total_tokens |-> 0, total_cost |-> 0, average_latency |-> 0, error_rate |-> 0]

\* faulty variant of SummaryOf: call.cost_log.estimated_cost is read without the
\* `if call.cost_log` guard, which raises for a call whose cost_log is None
SummaryOf_NoCostGuard(calls, costs) ==
    IF \E i \in 1..Len(calls) : CostLogsOf(costs, calls[i]) = <<>>
    THEN [error |-> "AttributeError"]
    ELSE [total_tokens    |-> SumSeq([i \in 1..Len(calls) |-> calls[i].total_tokens]),
          total_cost      |-> Round4(SumSeq(CallCosts(calls, costs))),
          average_latency |-> AverageLatency(calls),
          error_rate      |-> ErrorRate(ErrorCount(calls), Len(calls))]

\* the MetricsSummary computed from a non-empty list of calls
SummaryOf(calls, costs) ==
    [total_tokens    |-> SumSeq([i \in 1..Len(calls) |-> calls[i].total_tokens]),
     total_cost      |-> Round4(SumSeq(CallCosts(calls, costs))),
     average_latency |-> AverageLatency(calls),
     error_rate      |-> ErrorRate(ErrorCount(calls), Len(calls))]

\* faulty variant of get_summary_metrics: without the `if not calls` guard the
\* division by len(calls) raises
get_summary_metrics_NoGuard(logs, costs, user_id, days, utcnow) ==
    LET calls == QueryCalls(logs, user_id, days, utcnow)
    IN  IF Len(calls) = 0 THEN [error |-> "ZeroDivisionError"] ELSE SummaryOf(calls, costs)

get_summary_metrics(logs, costs, user_id, days, utcnow) ==
    LET calls == QueryCalls(logs, user_id, days, utcnow)
    IN  IF Len(calls) = 0 THEN EmptySummary ELSE SummaryOf(calls, costs)

\* faulty variant of OuterJoin: an inner join, which drops the calls without CostLog
OuterJoin_Inner(calls, costs) ==
    { [call |-> calls[i], cost |-> <<c>>] :
          i \in 1..Len(calls), c \in {costs[k] : k \in 1..Len(costs)} }

\* outer join of the filtered calls with cost_logs on LLMCallLog.id ==
\* CostLog.llm_call_id: one row per (call, cost) pair, and one row with a NULL
\* cost (<<>>) for a call that has no CostLog
OuterJoin(calls, costs) ==
    { [call |-> calls[i], cost |-> <<c>>] :
          i \in 1..Len(calls), c \in {costs[k] : k \in 1..Len(costs)} }
    \cup { [call |-> calls[i], cost |-> <<>>] : i \in {k \in 1..Len(calls) : CostLogsOf(costs, calls[k]) = <<>>} }

\* the rows of a join that the ON clause keeps
\* faulty variant of JoinRows: the join without its ON condition
JoinRows_Cross(calls, costs) ==
    OuterJoin(calls, costs)

JoinRows(calls, costs) ==
    { r \in OuterJoin(calls, costs) : r.cost = <<>> \/ r.cost[1].llm_call_id = r.call.id }

\* func.sum(col) over a set of rows: NULL values are skipped, and the sum of
\* no value is NULL.  col[r] is <<>> for NULL and <<v>> for the value v; so is
\* the result.
RECURSIVE SqlSum(_, _)
SqlSum(rows, col) ==
    IF rows = {} THEN <<>>
    ELSE LET r    == CHOOSE x \in rows : TRUE
             rest == SqlSum(rows \ {r}, col)
         IN  IF col[r] = <<>> THEN rest
             ELSE IF rest = <<>> THEN col[r]
             ELSE <<col[r][1] + rest[1]>>

\* Python's `x or 0` on a query result
OrZero(x) == IF x = <<>> THEN 0 ELSE x[1]

\* the columns LLMCallLog.total_tokens and CostLog.estimated_cost of a joined row
RowTokens(r) == <<r.call.total_tokens>>
RowCost(r) == IF r.cost = <<>> THEN <<>> ELSE <<r.cost[1].estimated_cost>>

\* faulty variant of GroupDates: no GROUP BY, one result row per joined row
GroupDates_NoGroup(rows) ==
    LET ids == SortAsc({r.call.id : r \in rows})
    IN  [i \in 1..Len(ids) |-> DateOf((CHOOSE r \in rows : r.call.id = ids[i]).call.created_at)]

\* group_by(func.date(created_at)).order_by(func.date(created_at)): the dates
\* of the groups, in the order of the result rows
GroupDates(rows) ==
    SortAsc({DateOf(r.call.created_at) : r \in rows})

\* faulty variant of TokenUsagePoint: the sums run over every row of the query,
\* not over the rows of the date
TokenUsagePoint_AllDates(rows, date) ==
    [date   |-> date,
     tokens |-> OrZero(SqlSum(rows, [r \in rows |-> RowTokens(r)])),
     cost   |-> Round4(OrZero(SqlSum(rows, [r \in rows |-> RowCost(r)])))]

\* TokenUsagePoint(date, tokens=row.total_tokens or 0, cost=round(row.total_cost or 0, 4))
TokenUsagePoint(rows, date) ==
    LET group == {r \in rows : DateOf(r.call.created_at) = date}
    IN  [date   |-> date,
         tokens |-> OrZero(SqlSum(group, [r \in group |-> RowTokens(r)])),
         cost   |-> Round4(OrZero(SqlSum(group, [r \in group |-> RowCost(r)])))]

\* faulty variant of get_token_usage_over_time: a date is reported as the number
\* of days before today
get_token_usage_over_time_DaysAgo(logs, costs, user_id, days, utcnow) ==
    LET rows  == JoinRows(QueryCalls(logs, user_id, days, utcnow), costs)
        dates == GroupDates(rows)
    IN  [i \in 1..Len(dates) |->
            [TokenUsagePoint(rows, dates[i]) EXCEPT !.date = DateOf(utcnow) - @]]

get_token_usage_over_time(logs, costs, user_id, days, utcnow) ==
    LET rows  == JoinRows(QueryCalls(logs, user_id, days, utcnow), costs)
        dates == GroupDates(rows)
    IN  [i \in 1..Len(dates) |-> TokenUsagePoint(rows, dates[i])]

\* the keys of the buckets dict, in insertion order
BucketLabels == <<"0-100ms", "100-200ms", "200-500ms", "500-1000ms", "1000ms+">>

\* faulty variant of BucketOf: the comparisons are <= instead of <
BucketOf_UpperInclusive(latency_ms) ==
    IF latency_ms <= 100 THEN "0-100ms"
    ELSE IF latency_ms <= 200 THEN "100-200ms"
    ELSE IF latency_ms <= 500 THEN "200-500ms"
    ELSE IF latency_ms <= 1000 THEN "500-1000ms"
    ELSE "1000ms+"

\* the if / elif chain on call.latency_ms
BucketOf(latency_ms) ==
    IF latency_ms < 100 THEN "0-100ms"
    ELSE IF latency_ms < 200 THEN "100-200ms"
    ELSE IF latency_ms < 500 THEN "200-500ms"
    ELSE IF latency_ms < 1000 THEN "500-1000ms"
    ELSE "1000ms+"

\* faulty variant of FillBuckets: the chain has no else branch, so a call of
\* 1000 ms or more is counted nowhere
RECURSIVE FillBuckets_NoElse(_, _)
FillBuckets_NoElse(buckets, calls) ==
    IF calls = <<>> THEN buckets
    ELSE LET label == BucketOf(Head(calls).latency_ms)
         IN  IF label = "1000ms+"
             THEN FillBuckets_NoElse(buckets, Tail(calls))
             ELSE FillBuckets_NoElse([buckets EXCEPT ![label] = @ + 1], Tail(calls))

\* for call in calls: buckets[...] += 1
RECURSIVE FillBuckets(_, _)
FillBuckets(buckets, calls) ==
    IF calls = <<>> THEN buckets
    ELSE LET label == BucketOf(Head(calls).latency_ms)
         IN  FillBuckets([buckets EXCEPT ![label] = @ + 1], Tail(calls))

\* faulty variant of BucketItems: the buckets of count 0 are left out
BucketItems_Sparse(buckets) ==
    SelectSeq([i \in 1..Len(BucketLabels) |->
                   [range |-> BucketLabels[i], count |-> buckets[BucketLabels[i]]]],
              LAMBDA e : e.count > 0)

\* [LatencyDistributionPoint(range=label, count=count) for label, count in buckets.items()]
BucketItems(buckets) ==
    [i \in 1..Len(BucketLabels) |-> [range |-> BucketLabels[i], count |-> buckets[BucketLabels[i]]]]

get_latency_distribution(logs, costs, user_id, days, utcnow) ==
    LET calls   == QueryCalls(logs, user_id, days, utcnow)
        buckets == [label \in {BucketLabels[i] : i \in 1..Len(BucketLabels)} |-> 0]
    IN  BucketItems(FillBuckets(buckets, calls))

\* the loop building daily_stats: date -> {"total", "errors"}
RECURSIVE DailyStats(_, _)
DailyStats(daily_stats, calls) ==
    IF calls = <<>> THEN daily_stats
    ELSE LET call  == Head(calls)
             date  == DateOf(call.created_at)
             old   == IF date \in DOMAIN daily_stats
                      THEN daily_stats[date] ELSE [total |-> 0, errors |-> 0]
             new   == [total  |-> old.total + 1,
                       errors |-> old.errors + (IF call.status = "error" THEN 1 ELSE 0)]
         IN  DailyStats([d \in DOMAIN daily_stats \cup {date} |->
                            IF d = date THEN new ELSE daily_stats[d]],
                        Tail(calls))

\* faulty variant of ErrorRatePoint: the fraction is not multiplied by 100
ErrorRatePoint_Fraction(date, stats) ==
    [date           |-> date,
     error_rate     |-> IF stats.total > 0
                        THEN RoundHalfEven(stats.errors * 100, stats.total) ELSE 0,
     total_requests |-> stats.total]

\* ErrorRatePoint(date, round(errors / total * 100 if total > 0 else 0, 2), total)
ErrorRatePoint(date, stats) ==
    [date           |-> date,
     error_rate     |-> IF stats.total > 0 THEN ErrorRate(stats.errors, stats.total) ELSE 0,
     total_requests |-> stats.total]

\* faulty variant of get_error_rate_over_time: every date of the window gets an
\* entry, the dates without a call with total 0
get_error_rate_over_time_ZeroFilled(logs, costs, user_id, days, utcnow) ==
    LET calls       == QueryCalls(logs, user_id, days, utcnow)
        daily_stats == DailyStats(<<>>, calls)
        dates       == SortAsc(DateOf(cutoff_date(utcnow, days))..DateOf(utcnow))
    IN  [i \in 1..Len(dates) |->
            ErrorRatePoint(dates[i],
                           IF dates[i] \in DOMAIN daily_stats THEN daily_stats[dates[i]]
                           ELSE [total |-> 0, errors |-> 0])]

get_error_rate_over_time(logs, costs, user_id, days, utcnow) ==
    LET calls       == QueryCalls(logs, user_id, days, utcnow)
        daily_stats == DailyStats(<<>>, calls)
        dates       == SortAsc(DOMAIN daily_stats)
    IN  [i \in 1..Len(dates) |-> ErrorRatePoint(dates[i], daily_stats[dates[i]])]

\* inner join of cost_logs with the filtered calls, func.sum(estimated_cost);
\* round(result or 0.0, 4)
\* faulty variant of get_cost_summary: the total over the logs of every user
get_cost_summary_AllUsers(logs, costs, user_id, days, utcnow) ==
    LET calls == SelectSeq(logs, LAMBDA call : call.created_at >= cutoff_date(utcnow, days))
        rows  == {r \in JoinRows(calls, costs) : r.cost # <<>>}
    IN  Round4(OrZero(SqlSum(rows, [r \in rows |-> RowCost(r)])))

get_cost_summary(logs, costs, user_id, days, utcnow) ==
    LET rows == {r \in JoinRows(QueryCalls(logs, user_id, days, utcnow), costs) : r.cost # <<>>}
    IN  Round4(OrZero(SqlSum(rows, [r \in rows |-> RowCost(r)])))

----------------------------------------------------------------------------
\* State machine

Init ==
    /\ llm_call_logs = <<>>
    /\ cost_logs = <<>>
    /\ pending = {}
    /\ now = 0
    /\ resp = NoResp
    /\ wrapper_pending = {}
    /\ feedback = <<>>
    /\ users = SeededUsers
    /\ models = SeededModels
    /\ system_settings = <<DefaultSettings(1)>>
    /\ creating = {}

\* the clock advances
Tick ==
    /\ resp = NoResp
    /\ now < MaxNow
    /\ now' = now + 1
    /\ UNCHANGED <<llm_call_logs, cost_logs, pending, resp, wrapper_pending, feedback, admin_vars>>

\* POST /llm/log-call by user u with body r, up to its first commit: the
\* CallLog row is inserted
LogCall(u, r) ==
    /\ resp = NoResp
    /\ Len(llm_call_logs) < MaxLogs
    /\ Cardinality(pending) + Cardinality(wrapper_pending) < MaxInFlight
    /\ LET id == Len(llm_call_logs) + 1
       IN  /\ llm_call_logs' = Append(llm_call_logs,
                  [id |-> id, user_id |-> u, model_id |-> r.model_id,
                   total_tokens |-> r.total_tokens, latency_ms |-> r.latency_ms,
                   status |-> r.status, error_message |-> r.error_message,
                   created_at |-> now])
           /\ pending' = pending \cup {id}
    /\ UNCHANGED <<cost_logs, now, resp, wrapper_pending, feedback, admin_vars>>

LogCallInsert ==
    \E u \in Users : \E r \in Requests(u) : LogCall(u, r)

\* estimated_cost = (request.total_tokens / 1000) * model.cost_per_1k_tokens
EstimatedCost(total_tokens, model_id) ==
    (total_tokens * llm_models[model_id]) \div 1000

\* POST /llm/log-call, from the model lookup to its end: the CostLog row is
\* inserted when the model exists
LogCallCost ==
    \E id \in pending :
        LET call == llm_call_logs[id]
        IN  /\ resp = NoResp
            /\ IF call.model_id \in DOMAIN llm_models
               THEN cost_logs' = Append(cost_logs,
                        [id |-> Len(cost_logs) + 1, llm_call_id |-> id,
                         estimated_cost |-> EstimatedCost(call.total_tokens, call.model_id)])
               ELSE cost_logs' = cost_logs
            /\ pending' = pending \ {id}
            /\ UNCHANGED <<llm_call_logs, now, resp, wrapper_pending, feedback, admin_vars>>

\* GET /metrics/summary
GetSummary ==
    \E u \in Users, d \in DaysValues :
        /\ resp = NoResp
        /\ resp' = [op |-> "summary", user_id |-> u, days |-> d,
                    value |-> get_summary_metrics(llm_call_logs, cost_logs, u, d, now)]
        /\ UNCHANGED <<llm_call_logs, cost_logs, pending, now, wrapper_pending, feedback, admin_vars>>

\* GET /metrics/token-usage
GetTokenUsage ==
    \E u \in Users, d \in DaysValues :
        /\ resp = NoResp
        /\ resp' = [op |-> "token_usage", user_id |-> u, days |-> d,
                    value |-> get_token_usage_over_time(llm_call_logs, cost_logs, u, d, now)]
        /\ UNCHANGED <<llm_call_logs, cost_logs, pending, now, wrapper_pending, feedback, admin_vars>>

\* GET /metrics/latency
GetLatency ==
    \E u \in Users, d \in DaysValues :
        /\ resp = NoResp
        /\ resp' = [op |-> "latency", user_id |-> u, days |-> d,
                    value |-> get_latency_distribution(llm_call_logs, cost_logs, u, d, now)]
        /\ UNCHANGED <<llm_call_logs, cost_logs, pending, now, wrapper_pending, feedback, admin_vars>>

\* GET /metrics/error-rate
GetErrorRate ==
    \E u \in Users, d \in DaysValues :
        /\ resp = NoResp
        /\ resp' = [op |-> "error_rate", user_id |-> u, days |-> d,
                    value |-> get_error_rate_over_time(llm_call_logs, cost_logs, u, d, now)]
        /\ UNCHANGED <<llm_call_logs, cost_logs, pending, now, wrapper_pending, feedback, admin_vars>>

\* GET /metrics/cost
GetCost ==
    \E u \in Users, d \in DaysValues :
        /\ resp = NoResp
        /\ resp' = [op |-> "cost", user_id |-> u, days |-> d,
                    value |-> get_cost_summary(llm_call_logs, cost_logs, u, d, now)]
        /\ UNCHANGED <<llm_call_logs, cost_logs, pending, now, wrapper_pending, feedback, admin_vars>>

\* the metrics response is returned to the caller
Return ==
    /\ resp # NoResp
    /\ resp' = NoResp
    /\ UNCHANGED <<llm_call_logs, cost_logs, pending, now, wrapper_pending, feedback, admin_vars>>

Next ==
    \/ Tick
    \/ LogCallInsert
    \/ LogCallCost
    \/ GetSummary
    \/ GetTokenUsage
    \/ GetLatency
    \/ GetErrorRate
    \/ GetCost
    \/ Return

Spec == Init /\ [][Next]_vars

----------------------------------------------------------------------------
\* The write paths: log-call with any accepted body, LLMObservabilityWrapper,
\* POST /llm/seed, init_db and POST /feedback

\* the logs per day of a seed request
MaxPerDay == 1
\* the days and the logs per day that init_db seeds for each user (30 and 25 in
\* the code)
InitDbDays == 1
InitDbPerDay == 1
\* the number of feedback rows ever inserted
MaxFeedback == 1

\* LLMCallLogCreate declares total_tokens: int and validates nothing more: a
\* body with a negative count is accepted
NegativeTokensBody ==
    [model_id |-> 1, total_tokens |-> -100, latency_ms |-> 50, status |-> "success",
     error_message |-> <<>>]

\* a body the schema accepts as well: status "error" with error_message left None
UnexplainedErrorBody ==
    [model_id |-> 1, total_tokens |-> 100, latency_ms |-> 50, status |-> "error",
     error_message |-> <<>>]

AcceptedRequests(u) == Requests(u) \cup {NegativeTokensBody, UnexplainedErrorBody}

\* POST /llm/log-call with any body the schema accepts
LogCallInsertAccepted ==
    \E u \in Users : \E r \in AcceptedRequests(u) : LogCall(u, r)

\* the wrappers created, LLMObservabilityWrapper(db, user_id, model_id);
\* model_id 9 names no row of llm_models
Wrappers == {[user_id |-> 1, model_id |-> 2], [user_id |-> 2, model_id |-> 9]}

\* what llm_function returns: a dict with the token counts, or one without them
LlmResponses ==
    { [prompt_tokens |-> 100, completion_tokens |-> 50, keys |-> TRUE],
      [prompt_tokens |-> 0,   completion_tokens |-> 0,  keys |-> FALSE] }

\* the latency the wrapper measures, in ms
WrapperLatency == 120

\* response.get("prompt_tokens", 0) + response.get("completion_tokens", 0)
ResponseTokens(response) ==
    (IF response.keys THEN response.prompt_tokens ELSE 0)
    + (IF response.keys THEN response.completion_tokens ELSE 0)

\* call_llm, llm_function returned: _log_successful_call inserts the CallLog and
\* commits
CallLlmLogSuccess ==
    \E self \in Wrappers, response \in LlmResponses :
        /\ resp = NoResp
        /\ Len(llm_call_logs) < MaxLogs
        /\ Cardinality(pending) + Cardinality(wrapper_pending) < MaxInFlight
        /\ LET id == Len(llm_call_logs) + 1
           IN  /\ llm_call_logs' = Append(llm_call_logs,
                      [id |-> id, user_id |-> self.user_id, model_id |-> self.model_id,
                       total_tokens |-> ResponseTokens(response),
                       latency_ms |-> WrapperLatency,
                       status |-> "success", error_message |-> <<>>,
                       created_at |-> now])
               /\ wrapper_pending' = wrapper_pending \cup {id}
        /\ UNCHANGED <<cost_logs, pending, now, resp, feedback, admin_vars>>

\* _calculate_cost: 0.0 when the model is not found
CalculateCost(total_tokens, model_id) ==
    IF model_id \in DOMAIN llm_models THEN EstimatedCost(total_tokens, model_id) ELSE 0

\* call_llm, after _log_successful_call: _log_cost inserts the CostLog and commits
CallLlmLogCost ==
    \E id \in wrapper_pending :
        LET call == llm_call_logs[id]
        IN  /\ resp = NoResp
            /\ cost_logs' = Append(cost_logs,
                    [id |-> Len(cost_logs) + 1, llm_call_id |-> id,
                     estimated_cost |-> CalculateCost(call.total_tokens, call.model_id)])
            /\ wrapper_pending' = wrapper_pending \ {id}
            /\ UNCHANGED <<llm_call_logs, pending, now, resp, feedback, admin_vars>>

\* call_llm, after _log_successful_call, when _log_cost raises (its commit
\* fails, or _calculate_cost cannot divide a token count that llm_function
\* returned as text): the except branch calls _log_error, which inserts a
\* CallLog of status "error" and commits; when that commit fails as well the
\* exception leaves call_llm and no row is written.  No CostLog is written.
CallLlmLogCostRaises ==
    \E id \in wrapper_pending, logged \in BOOLEAN :
        LET call == llm_call_logs[id]
        IN  /\ resp = NoResp
            /\ logged => Len(llm_call_logs) < MaxLogs
            /\ llm_call_logs' =
                   IF logged
                   THEN Append(llm_call_logs,
                            [id |-> Len(llm_call_logs) + 1,
                             user_id |-> call.user_id, model_id |-> call.model_id,
                             total_tokens |-> 0, latency_ms |-> WrapperLatency,
                             status |-> "error", error_message |-> <<"exception">>,
                             created_at |-> now])
                   ELSE llm_call_logs
            /\ wrapper_pending' = wrapper_pending \ {id}
            /\ UNCHANGED <<cost_logs, pending, now, resp, feedback, admin_vars>>

\* faulty variant of CallLlmLogError: the error is written over the newest
\* CallLog instead of being inserted as a new row
CallLlmLogError_Overwrite ==
    \E self \in Wrappers :
        /\ resp = NoResp
        /\ llm_call_logs # <<>>
        /\ llm_call_logs' = [llm_call_logs EXCEPT ![Len(llm_call_logs)] =
               [id |-> Len(llm_call_logs),
                user_id |-> self.user_id, model_id |-> self.model_id,
                total_tokens |-> 0, latency_ms |-> WrapperLatency,
                status |-> "error", error_message |-> <<"exception">>,
                created_at |-> now]]
        /\ UNCHANGED <<cost_logs, pending, now, resp, wrapper_pending, feedback, admin_vars>>

\* call_llm, llm_function raised: _log_error inserts a CallLog of status "error"
\* with 0 tokens and commits; no CostLog is written
CallLlmLogError ==
    \E self \in Wrappers :
        /\ resp = NoResp
        /\ Len(llm_call_logs) < MaxLogs
        /\ llm_call_logs' = Append(llm_call_logs,
               [id |-> Len(llm_call_logs) + 1,
                user_id |-> self.user_id, model_id |-> self.model_id,
                total_tokens |-> 0, latency_ms |-> WrapperLatency,
                status |-> "error", error_message |-> <<"exception">>,
                created_at |-> now])
        /\ UNCHANGED <<cost_logs, pending, now, resp, wrapper_pending, feedback, admin_vars>>

\* what the random draws of a seeded log come to: model = random.choice(models),
\* total_tokens in 70..2000, latency_ms >= 20, status "success" or "error"
SeedChoices ==
    { [model_id |-> 3, total_tokens |-> 70,   latency_ms |-> 20,  status |-> "success",
       error_message |-> <<>>],
      [model_id |-> 5, total_tokens |-> 1000, latency_ms |-> 250, status |-> "error",
       error_message |-> <<"rate_limit">>] }

\* the CallLogs a seed loop adds for user_id: row k is a log of day
\* (k - 1) \div per_day before utcnow; db.flush() gives it the next id
SeedCallLogs(logs, user_id, per_day, rows, utcnow) ==
    [k \in 1..Len(rows) |->
        [id |-> Len(logs) + k, user_id |-> user_id, model_id |-> rows[k].model_id,
         total_tokens |-> rows[k].total_tokens, latency_ms |-> rows[k].latency_ms,
         status |-> rows[k].status, error_message |-> rows[k].error_message,
         created_at |-> utcnow - ((k - 1) \div per_day) * TicksPerDay]]

\* faulty variant of SeedCostLogs: every CostLog points to the first seeded CallLog
SeedCostLogs_FirstId(logs, costs, rows) ==
    [k \in 1..Len(rows) |->
        [id |-> Len(costs) + k, llm_call_id |-> Len(logs) + 1,
         estimated_cost |-> EstimatedCost(rows[k].total_tokens, rows[k].model_id)]]

\* the CostLogs a seed loop adds: CostLog(llm_call_id=log_entry.id,
\* estimated_cost=(total_tokens / 1000.0) * model.cost_per_1k_tokens)
SeedCostLogs(logs, costs, rows) ==
    [k \in 1..Len(rows) |->
        [id |-> Len(costs) + k, llm_call_id |-> Len(logs) + k,
         estimated_cost |-> EstimatedCost(rows[k].total_tokens, rows[k].model_id)]]

\* POST /llm/seed: per_day logs, each with its CostLog, for each of the past
\* days days.  The handler commits once per day; the rows of a day become
\* visible together, and the store after j days of a request is the store
\* after a request for j days, so the request is one step.
Seed ==
    \E u \in Users, days \in 1..MaxDays, per_day \in 1..MaxPerDay :
        \E rows \in [1..(days * per_day) -> SeedChoices] :
            /\ resp = NoResp
            /\ Len(llm_call_logs) + days * per_day <= MaxLogs
            /\ IF Len(llm_models) = 0
               THEN UNCHANGED <<llm_call_logs, cost_logs>>
               ELSE /\ llm_call_logs' =
                           llm_call_logs \o SeedCallLogs(llm_call_logs, u, per_day, rows, now)
                    /\ cost_logs' = cost_logs \o SeedCostLogs(llm_call_logs, cost_logs, rows)
            /\ UNCHANGED <<pending, now, resp, wrapper_pending, feedback, admin_vars>>

\* the ids of the rows of users with the given e-mail (users.email is unique)
UserIdsByEmail(email) ==
    {users[i].id : i \in {j \in DOMAIN users : users[j].email = email}}

\* init_db after its first commit: when llm_call_logs holds no row and both
\* accounts and a model are found, demo logs with their CostLogs are seeded
\* for the admin account and then for the viewer account
SeedDemoLogs(rows1, rows2) ==
    LET admin_user == UserIdsByEmail(AdminEmail)
        user_user  == UserIdsByEmail(ViewerEmail)
    IN  IF llm_call_logs = <<>> /\ admin_user # {} /\ user_user # {} /\ models # <<>>
        THEN LET logs1  == SeedCallLogs(<<>>, CHOOSE u \in admin_user : TRUE,
                                        InitDbPerDay, rows1, now)
                 costs1 == cost_logs \o SeedCostLogs(<<>>, cost_logs, rows1)
             IN  /\ llm_call_logs' =
                        logs1 \o SeedCallLogs(logs1, CHOOSE u \in user_user : TRUE,
                                              InitDbPerDay, rows2, now)
                 /\ cost_logs' = costs1 \o SeedCostLogs(logs1, costs1, rows2)
        ELSE UNCHANGED <<llm_call_logs, cost_logs>>

\* init_db on a database whose accounts, models and settings row exist: its
\* queries find every row, its first commit inserts nothing, and the demo
\* logs follow
InitDb ==
    \E rows1, rows2 \in [1..(InitDbDays * InitDbPerDay) -> SeedChoices] :
        /\ resp = NoResp
        /\ 2 * InitDbDays * InitDbPerDay <= MaxLogs
        /\ \A i \in DOMAIN SeededUsers : SeededUsers[i].email \in
               {users[j].email : j \in DOMAIN users}
        /\ \A i \in DOMAIN models_to_add : models_to_add[i].name \in
               {models[j].name : j \in DOMAIN models}
        /\ system_settings # <<>>
        /\ SeedDemoLogs(rows1, rows2)
        /\ UNCHANGED <<pending, now, resp, wrapper_pending, feedback, admin_vars>>

\* the llm_call_id of a FeedbackCreate body
FeedbackCallIds == {1}

\* POST /feedback by the viewer: a Feedback row is inserted
SubmitFeedback ==
    \E u \in {2}, call_id \in FeedbackCallIds :
        /\ resp = NoResp
        /\ Len(feedback) < MaxFeedback
        /\ feedback' = Append(feedback,
               [id |-> Len(feedback) + 1, llm_call_id |-> call_id, user_id |-> u, rating |-> 5])
        /\ UNCHANGED <<llm_call_logs, cost_logs, pending, now, resp, wrapper_pending, admin_vars>>

NextWrites ==
    \/ LogCallInsertAccepted
    \/ LogCallCost
    \/ CallLlmLogSuccess
    \/ CallLlmLogCost
    \/ CallLlmLogCostRaises
    \/ CallLlmLogError
    \/ Seed
    \/ InitDb
    \/ SubmitFeedback
    \/ GetSummary
    \/ GetTokenUsage
    \/ GetLatency
    \/ GetErrorRate
    \/ GetCost
    \/ Return

\* every operation that touches the stores, on a clock that stands still
SpecWrites == Init /\ [][NextWrites]_vars

----------------------------------------------------------------------------
\* The metrics routes and their authentication dependency

\* Bearer tokens, named by what decode_token makes of them: a token that does
\* not decode, one whose payload has no user_id, and tokens whose payload
\* names user 1, user 2 and user 3, who has no row in users
Tokens == {"invalid", "no_user_id", "user_1", "user_2", "user_3"}

\* decode_token: <<>> for None, else <<payload>>; the payload maps "user_id"
\* to <<>> when the key is missing and to <<n>> when its value is n
decode_token(token) ==
    CASE token = "invalid"    -> <<>>
      [] token = "no_user_id" -> <<[user_id |-> <<>>]>>
      [] token = "user_1"     -> <<[user_id |-> <<1>>]>>
      [] token = "user_2"     -> <<[user_id |-> <<2>>]>>
      [] token = "user_3"     -> <<[user_id |-> <<3>>]>>

\* faulty variant of get_current_user: the user is not looked up
get_current_user_NoLookup(token) ==
    LET payload == decode_token(token)
    IN  IF payload = <<>>
        THEN [status |-> 401, detail |-> "Invalid authentication credentials"]
        ELSE IF payload[1].user_id = <<>>
        THEN [status |-> 401, detail |-> "Invalid token"]
        ELSE [status |-> 200, id |-> payload[1].user_id[1]]

\* the dependency get_current_user: the user of the token, or the 401 raised
get_current_user(token) ==
    LET payload == decode_token(token)
    IN  IF payload = <<>>
        THEN [status |-> 401, detail |-> "Invalid authentication credentials"]
        ELSE IF payload[1].user_id = <<>>
        THEN [status |-> 401, detail |-> "Invalid token"]
        ELSE IF payload[1].user_id[1] \notin {users[i].id : i \in DOMAIN users}
        THEN [status |-> 401, detail |-> "User not found"]
        ELSE [status |-> 200, id |-> payload[1].user_id[1]]

\* the response to a metrics request whose dependency raised
Unauthorized(op, token, current_user) ==
    [op |-> op, token |-> token,
     status |-> current_user.status, detail |-> current_user.detail]

\* the days query parameter as a request carries it: <<>> when omitted.  0 and
\* 366 are the neighbours of the accepted range
DaysQueries == {<<>>, <<0>>, <<366>>} \cup {<<d>> : d \in DaysValues \cup {365}}

\* Query(default=30, ge=1, le=365) without its upper limit
DaysParam_NoUpperLimit(query) ==
    IF query = <<>> THEN [status |-> 200, days |-> 30]
    ELSE IF query[1] < 1 THEN [status |-> 422]
    ELSE [status |-> 200, days |-> query[1]]

\* days: int = Query(default=30, ge=1, le=365): the value the handler is
\* called with, or the 422 of the validation
DaysParam(query) ==
    IF query = <<>> THEN [status |-> 200, days |-> 30]
    ELSE IF query[1] < 1 \/ query[1] > 365 THEN [status |-> 422]
    ELSE [status |-> 200, days |-> query[1]]

\* the response to a metrics request whose days parameter is rejected
Unprocessable(op, token, query) ==
    [op |-> op, token |-> token, query |-> query, status |-> 422]

\* the response of a metrics route that ran
Ok(op, token, query, days, current_user, value) ==
    [op |-> op, token |-> token, query |-> query, days |-> days,
     status |-> 200, user_id |-> current_user.id, value |-> value]

\* GET /metrics/summary with a bearer token and a days parameter.  The dependency is
\* resolved before the parameter's validation error is raised
RouteSummary ==
    \E token \in Tokens, query \in DaysQueries :
        LET current_user == get_current_user(token)
            days == DaysParam(query)
        IN  /\ resp = NoResp
            /\ resp' = IF current_user.status # 200
                       THEN Unauthorized("summary", token, current_user)
                       ELSE IF days.status # 200
                       THEN Unprocessable("summary", token, query)
                       ELSE Ok("summary", token, query, days.days, current_user,
                               get_summary_metrics(llm_call_logs, cost_logs,
                                   current_user.id, days.days, now))
            /\ UNCHANGED <<llm_call_logs, cost_logs, pending, now, wrapper_pending, feedback, admin_vars>>

\* GET /metrics/token-usage with a bearer token and a days parameter.  The dependency is
\* resolved before the parameter's validation error is raised
RouteTokenUsage ==
    \E token \in Tokens, query \in DaysQueries :
        LET current_user == get_current_user(token)
            days == DaysParam(query)
        IN  /\ resp = NoResp
            /\ resp' = IF current_user.status # 200
                       THEN Unauthorized("token_usage", token, current_user)
                       ELSE IF days.status # 200
                       THEN Unprocessable("token_usage", token, query)
                       ELSE Ok("token_usage", token, query, days.days, current_user,
                               get_token_usage_over_time(llm_call_logs, cost_logs,
                                   current_user.id, days.days, now))
            /\ UNCHANGED <<llm_call_logs, cost_logs, pending, now, wrapper_pending, feedback, admin_vars>>

\* GET /metrics/latency with a bearer token and a days parameter.  The dependency is
\* resolved before the parameter's validation error is raised
RouteLatency ==
    \E token \in Tokens, query \in DaysQueries :
        LET current_user == get_current_user(token)
            days == DaysParam(query)
        IN  /\ resp = NoResp
            /\ resp' = IF current_user.status # 200
                       THEN Unauthorized("latency", token, current_user)
                       ELSE IF days.status # 200
                       THEN Unprocessable("latency", token, query)
                       ELSE Ok("latency", token, query, days.days, current_user,
                               get_latency_distribution(llm_call_logs, cost_logs,
                                   current_user.id, days.days, now))
            /\ UNCHANGED <<llm_call_logs, cost_logs, pending, now, wrapper_pending, feedback, admin_vars>>

\* GET /metrics/error-rate with a bearer token and a days parameter.  The dependency is
\* resolved before the parameter's validation error is raised
RouteErrorRate ==
    \E token \in Tokens, query \in DaysQueries :
        LET current_user == get_current_user(token)
            days == DaysParam(query)
        IN  /\ resp = NoResp
            /\ resp' = IF current_user.status # 200
                       THEN Unauthorized("error_rate", token, current_user)
                       ELSE IF days.status # 200
                       THEN Unprocessable("error_rate", token, query)
                       ELSE Ok("error_rate", token, query, days.days, current_user,
                               get_error_rate_over_time(llm_call_logs, cost_logs,
                                   current_user.id, days.days, now))
            /\ UNCHANGED <<llm_call_logs, cost_logs, pending, now, wrapper_pending, feedback, admin_vars>>

\* GET /metrics/cost with a bearer token and a days parameter.  The dependency is
\* resolved before the parameter's validation error is raised
RouteCost ==
    \E token \in Tokens, query \in DaysQueries :
        LET current_user == get_current_user(token)
            days == DaysParam(query)
        IN  /\ resp = NoResp
            /\ resp' = IF current_user.status # 200
                       THEN Unauthorized("cost", token, current_user)
                       ELSE IF days.status # 200
                       THEN Unprocessable("cost", token, query)
                       ELSE Ok("cost", token, query, days.days, current_user,
                               get_cost_summary(llm_call_logs, cost_logs,
                                   current_user.id, days.days, now))
            /\ UNCHANGED <<llm_call_logs, cost_logs, pending, now, wrapper_pending, feedback, admin_vars>>

NextAuth ==
    \/ Tick
    \/ LogCallInsert
    \/ LogCallCost
    \/ RouteSummary
    \/ RouteTokenUsage
    \/ RouteLatency
    \/ RouteErrorRate
    \/ RouteCost
    \/ Return

\* the metrics routes called with any bearer token
SpecAuth == Init /\ [][NextAuth]_vars

----------------------------------------------------------------------------
\* Accounts, model catalogue and system settings

\* the processes that serve requests or run init_db on the one database
MaxWorkers == 2

Workers == 1..MaxWorkers

\* the processes whose handler is between its query and its commit
Busy == {c.worker : c \in creating}

\* the e-mail addresses of the rows of users
Emails == {users[i].email : i \in DOMAIN users}

\* the names of the rows of llm_models
ModelNames == {models[i].name : i \in DOMAIN models}

\* the bodies of POST /auth/register (UserRegisterRequest)
RegisterBodies ==
    { [email |-> AdminEmail,  role |-> "admin"],
      [email |-> ViewerEmail, role |-> "viewer"] }

\* POST /auth/register: UserService.register_user inserts the account unless
\* its e-mail is taken
Register ==
    \E body \in RegisterBodies :
        /\ resp = NoResp
        /\ IF body.email \in Emails
           THEN /\ resp' = [op |-> "register", status |-> 400,
                            detail |-> "Email already registered"]
                /\ UNCHANGED users
           ELSE /\ users' = Append(users, [id |-> Len(users) + 1,
                                           email |-> body.email, role |-> body.role])
                /\ resp' = [op |-> "register", status |-> 201, user_id |-> Len(users) + 1]
        /\ UNCHANGED <<llm_call_logs, cost_logs, pending, now, wrapper_pending, feedback,
                       models, system_settings, creating>>

\* the dependency require_admin without its role test
require_admin_AnyUser(token) ==
    get_current_user(token)

\* the dependency require_admin: the user of the token when an admin, or the
\* 401 of get_current_user, or the 403 raised
require_admin(token) ==
    LET current_user == get_current_user(token)
    IN  IF current_user.status # 200
        THEN current_user
        ELSE IF users[current_user.id].role # "admin"
        THEN [status |-> 403, detail |-> "Admin access required"]
        ELSE current_user

\* the bodies of PUT /settings (SystemSettingsUpdate): <<>> is a field left None
SettingsBodies ==
    [ claude_haiku_45_enabled : {<<>>, <<TRUE>>},
      max_tokens_per_request  : {<<>>, <<1024>>},
      enable_caching          : {<<>>, <<FALSE>>} ]

\* the response of a settings route that served the row
SettingsOk(op, token, request, current_user, row) ==
    [op |-> op, token |-> token, request |-> request, status |-> 200,
     user_id |-> current_user.id, value |-> row]

\* the response of a settings route whose dependency raised
SettingsDenied(op, token, request, current_user) ==
    [op |-> op, token |-> token, request |-> request,
     status |-> current_user.status, detail |-> current_user.detail]

\* the request of a route without a body
NoBody == <<>>

\* GET /settings up to its commit: the dependency, then
\* db.query(SystemSettings).first(); the row found is served, and when none is
\* found the handler goes on to create one
GetSettings ==
    \E w \in Workers, token \in Tokens :
        LET current_user == require_admin(token)
        IN  /\ resp = NoResp
            /\ w \notin Busy
            /\ IF current_user.status # 200
               THEN /\ resp' = SettingsDenied("get_settings", token, NoBody, current_user)
                    /\ UNCHANGED creating
               ELSE IF system_settings # <<>>
               THEN /\ \E i \in DOMAIN system_settings :
                           resp' = SettingsOk("get_settings", token, NoBody, current_user,
                                              system_settings[i])
                    /\ UNCHANGED creating
               ELSE /\ creating' = creating \cup
                           {[worker |-> w, op |-> "get_settings", token |-> token,
                             user_id |-> current_user.id]}
                    /\ UNCHANGED resp
            /\ UNCHANGED <<llm_call_logs, cost_logs, pending, now, wrapper_pending, feedback,
                           users, models, system_settings>>

\* GET /settings, the commit of the default row and the response
GetSettingsCreate ==
    \E c \in creating :
        LET row == DefaultSettings(Len(system_settings) + 1)
        IN  /\ resp = NoResp
            /\ c.op = "get_settings"
            /\ system_settings' = Append(system_settings, row)
            /\ resp' = SettingsOk("get_settings", c.token, NoBody, [id |-> c.user_id], row)
            /\ creating' = creating \ {c}
            /\ UNCHANGED <<llm_call_logs, cost_logs, pending, now, wrapper_pending, feedback,
                           users, models>>

\* update_settings' assignments with every field written, the absent ones as
\* the column defaults
ApplyUpdate_Overwrite(row, request, user_id) ==
    [row EXCEPT
        !.claude_haiku_45_enabled =
            IF request.claude_haiku_45_enabled = <<>> THEN FALSE
            ELSE request.claude_haiku_45_enabled[1],
        !.max_tokens_per_request =
            IF request.max_tokens_per_request = <<>> THEN 4096
            ELSE request.max_tokens_per_request[1],
        !.enable_caching =
            IF request.enable_caching = <<>> THEN TRUE
            ELSE request.enable_caching[1],
        !.updated_by = <<user_id>>]

\* update_settings' assignments to the row: each field of the request that is
\* not None, and updated_by
ApplyUpdate(row, request, user_id) ==
    [row EXCEPT
        !.claude_haiku_45_enabled =
            IF request.claude_haiku_45_enabled = <<>> THEN @
            ELSE request.claude_haiku_45_enabled[1],
        !.max_tokens_per_request =
            IF request.max_tokens_per_request = <<>> THEN @
            ELSE request.max_tokens_per_request[1],
        !.enable_caching =
            IF request.enable_caching = <<>> THEN @
            ELSE request.enable_caching[1],
        !.updated_by = <<user_id>>]

\* PUT /settings up to its commit: the dependency, then
\* db.query(SystemSettings).first(); the row found is updated and served, and
\* when none is found the handler goes on to create one
UpdateSettings ==
    \E w \in Workers, token \in Tokens, request \in SettingsBodies :
        LET current_user == require_admin(token)
        IN  /\ resp = NoResp
            /\ w \notin Busy
            /\ IF current_user.status # 200
               THEN /\ resp' = SettingsDenied("update_settings", token, request, current_user)
                    /\ UNCHANGED <<system_settings, creating>>
               ELSE IF system_settings # <<>>
               THEN /\ \E i \in DOMAIN system_settings :
                           LET row == ApplyUpdate(system_settings[i], request, current_user.id)
                           IN  /\ system_settings' = [system_settings EXCEPT ![i] = row]
                               /\ resp' = SettingsOk("update_settings", token, request,
                                                     current_user, row)
                    /\ UNCHANGED creating
               ELSE /\ creating' = creating \cup
                           {[worker |-> w, op |-> "update_settings", token |-> token,
                             user_id |-> current_user.id, request |-> request]}
                    /\ UNCHANGED <<resp, system_settings>>
            /\ UNCHANGED <<llm_call_logs, cost_logs, pending, now, wrapper_pending, feedback,
                           users, models>>

\* PUT /settings, the commit of the row it created and the response
UpdateSettingsCreate ==
    \E c \in creating :
        LET row == ApplyUpdate(DefaultSettings(Len(system_settings) + 1), c.request, c.user_id)
        IN  /\ resp = NoResp
            /\ c.op = "update_settings"
            /\ system_settings' = Append(system_settings, row)
            /\ resp' = SettingsOk("update_settings", c.token, c.request, [id |-> c.user_id], row)
            /\ creating' = creating \ {c}
            /\ UNCHANGED <<llm_call_logs, cost_logs, pending, now, wrapper_pending, feedback,
                           users, models>>

\* the accounts init_db is to create, in the order it looks for them
InitDbAccounts ==
    << [email |-> AdminEmail,  role |-> "admin"],
       [email |-> ViewerEmail, role |-> "viewer"] >>

\* faulty variant of InitDbQuery: a settings row is added to the session
\* whether or not one is found
InitDbQuery_AlwaysSettings ==
    \E w \in Workers :
        /\ resp = NoResp
        /\ w \notin Busy
        /\ creating' = creating \cup
               {[worker |-> w, op |-> "init_db", phase |-> "catalog",
                 add_users |-> SelectSeq(InitDbAccounts, LAMBDA a : a.email \notin Emails),
                 add_models |-> SelectSeq(models_to_add, LAMBDA m : m.name \notin ModelNames),
                 add_settings |-> TRUE]}
        /\ UNCHANGED <<llm_call_logs, cost_logs, pending, now, resp, wrapper_pending, feedback,
                       users, models, system_settings>>

\* init_db's queries: the accounts, the models and the settings row it finds
\* missing and adds to its session
InitDbQuery ==
    \E w \in Workers :
        /\ resp = NoResp
        /\ w \notin Busy
        /\ creating' = creating \cup
               {[worker |-> w, op |-> "init_db", phase |-> "catalog",
                 add_users |-> SelectSeq(InitDbAccounts, LAMBDA a : a.email \notin Emails),
                 add_models |-> SelectSeq(models_to_add, LAMBDA m : m.name \notin ModelNames),
                 add_settings |-> (system_settings = <<>>)]}
        /\ UNCHANGED <<llm_call_logs, cost_logs, pending, now, resp, wrapper_pending, feedback,
                       users, models, system_settings>>

\* init_db's first commit: the rows added to the session are inserted; when
\* an e-mail or a model name has been taken since the query the unique index
\* rejects the insert, the session is rolled back and init_db is over
InitDbCommit ==
    \E c \in creating :
        /\ resp = NoResp
        /\ c.op = "init_db"
        /\ c.phase = "catalog"
        /\ IF \/ \E i \in DOMAIN c.add_users : c.add_users[i].email \in Emails
              \/ \E i \in DOMAIN c.add_models : c.add_models[i].name \in ModelNames
           THEN /\ creating' = creating \ {c}
                /\ UNCHANGED <<users, models, system_settings>>
           ELSE /\ users' = users \o
                       [i \in DOMAIN c.add_users |->
                           [id |-> Len(users) + i, email |-> c.add_users[i].email,
                            role |-> c.add_users[i].role]]
                /\ models' = models \o
                       [i \in DOMAIN c.add_models |->
                           [id |-> Len(models) + i, name |-> c.add_models[i].name,
                            cost_per_1k_tokens |-> c.add_models[i].cost_per_1k_tokens]]
                /\ system_settings' =
                       IF c.add_settings
                       THEN Append(system_settings, DefaultSettings(Len(system_settings) + 1))
                       ELSE system_settings
                /\ creating' = (creating \ {c}) \cup {[c EXCEPT !.phase = "seed"]}
        /\ UNCHANGED <<llm_call_logs, cost_logs, pending, now, resp, wrapper_pending, feedback>>

\* init_db after its first commit: the demo logs
InitDbSeed ==
    \E c \in creating :
        \E rows1, rows2 \in [1..(InitDbDays * InitDbPerDay) -> SeedChoices] :
            /\ resp = NoResp
            /\ c.op = "init_db"
            /\ c.phase = "seed"
            /\ 2 * InitDbDays * InitDbPerDay <= MaxLogs
            /\ SeedDemoLogs(rows1, rows2)
            /\ creating' = creating \ {c}
            /\ UNCHANGED <<pending, now, resp, wrapper_pending, feedback,
                           users, models, system_settings>>

\* an empty database: the tables as Base.metadata.create_all leaves them
InitEmpty ==
    /\ llm_call_logs = <<>>
    /\ cost_logs = <<>>
    /\ pending = {}
    /\ now = 0
    /\ resp = NoResp
    /\ wrapper_pending = {}
    /\ feedback = <<>>
    /\ users = <<>>
    /\ models = <<>>
    /\ system_settings = <<>>
    /\ creating = {}

NextAdmin ==
    \/ Register
    \/ InitDbQuery
    \/ InitDbCommit
    \/ InitDbSeed
    \/ GetSettings
    \/ GetSettingsCreate
    \/ UpdateSettings
    \/ UpdateSettingsCreate
    \/ Return

\* registration, init_db and the settings routes on a database that starts empty
SpecAdmin == InitEmpty /\ [][NextAdmin]_vars

----------------------------------------------------------------------------
\* Properties

\* the ids of the CallLogs a request for (u, d) made now is to count:
\* owned by u and created at or after now - d days
Matching(u, d) ==
    { i \in 1..Len(llm_call_logs) :
          /\ llm_call_logs[i].user_id = u
          /\ llm_call_logs[i].created_at >= now - d * TicksPerDay }

\* the operation a response came from, applied to a given store and clock
Aggregate(op, logs, costs, u, d, t) ==
    CASE op = "summary"     -> get_summary_metrics(logs, costs, u, d, t)
      [] op = "token_usage" -> get_token_usage_over_time(logs, costs, u, d, t)
      [] op = "latency"     -> get_latency_distribution(logs, costs, u, d, t)
      [] op = "error_rate"  -> get_error_rate_over_time(logs, costs, u, d, t)
      [] op = "cost"        -> get_cost_summary(logs, costs, u, d, t)

\* the sum of f over a finite set
RECURSIVE Total(_, _)
Total(S, f) ==
    IF S = {} THEN 0
    ELSE LET x == CHOOSE y \in S : TRUE
         IN  f[x] + Total(S \ {x}, f)

Abs(x) == IF x < 0 THEN -x ELSE x

\* v is num/den rounded to the nearest unit
IsRounded(v, num, den) == 2 * Abs(v * den - num) <= den

HasCostLog(i) == \E k \in 1..Len(cost_logs) : cost_logs[k].llm_call_id = i

\* the sum of the estimated_cost of the CostLogs of the CallLogs in S
CostOf(S) ==
    LET K == {k \in 1..Len(cost_logs) : cost_logs[k].llm_call_id \in S}
    IN  Total(K, [k \in K |-> cost_logs[k].estimated_cost])

TokensOf(S) == Total(S, [i \in S |-> llm_call_logs[i].total_tokens])
LatencyOf(S) == Total(S, [i \in S |-> llm_call_logs[i].latency_ms])
ErrorsOf(S) == {i \in S : llm_call_logs[i].status = "error"}

\* the store with every row of the other users removed
OwnLogs(u) == SelectSeq(llm_call_logs, LAMBDA call : call.user_id = u)
OwnCosts(u) == SelectSeq(cost_logs, LAMBDA c : llm_call_logs[c.llm_call_id].user_id = u)

\* C1: per-user isolation.  Every response for user u equals the result of the
\* same operation on the store from which all CallLogs and CostLogs of the other
\* users are removed; so two stores that agree on u's rows give u the same result.
C1_Isolation ==
    resp # NoResp =>
        resp.value = Aggregate(resp.op, OwnLogs(resp.user_id), OwnCosts(resp.user_id),
                               resp.user_id, resp.days, now)

\* a response for u computed while another user has a CallLog with a CostLog in
\* the window and u has one too
C1_Witness ==
    /\ resp # NoResp
    /\ Matching(resp.user_id, resp.days) # {}
    /\ \E v \in Users \ {resp.user_id} :
           \E i \in Matching(v, resp.days) : HasCostLog(i)

\* a window of days that reaches before the first tick
WholeHistory == MaxNow + 1

\* the CallLogs of u created at or after now - d days
WindowLogs(u, d) ==
    SelectSeq(llm_call_logs,
              LAMBDA call : call.user_id = u /\ call.created_at >= now - d * TicksPerDay)

\* C2: window membership.  For each of the five operations the response for
\* (user_id, days) at time now is the result over exactly the CallLogs with that
\* user_id and created_at >= now - days, the boundary included: it equals the
\* operation's result on those logs alone with no time limit.
C2_WindowMembership ==
    resp # NoResp =>
        resp.value = Aggregate(resp.op, WindowLogs(resp.user_id, resp.days), cost_logs,
                               resp.user_id, WholeHistory, now)

\* days = 1 with one log of the user older than a day, one exactly a day old and
\* one just created
C2_Witness ==
    /\ resp # NoResp
    /\ resp.days = 1
    /\ \E i, j, k \in 1..Len(llm_call_logs) :
           /\ llm_call_logs[i].user_id = resp.user_id
           /\ llm_call_logs[j].user_id = resp.user_id
           /\ llm_call_logs[k].user_id = resp.user_id
           /\ llm_call_logs[i].created_at < now - TicksPerDay
           /\ llm_call_logs[j].created_at = now - TicksPerDay
           /\ llm_call_logs[k].created_at = now
    /\ Cardinality(Matching(resp.user_id, 1)) = 2

\* C3: with no CallLog of the user in the window, get_summary_metrics returns
\* total_tokens 0, total_cost 0.0, average_latency 0.0 and error_rate 0.0.
C3_EmptySummary ==
    (resp.op = "summary" /\ Matching(resp.user_id, resp.days) = {}) =>
        resp.value = [total_tokens |-> 0, total_cost |-> 0,
                      average_latency |-> 0, error_rate |-> 0]

\* a summary for a user all of whose logs are older than the window, while the
\* other user has a log in it
C3_Witness ==
    /\ resp.op = "summary"
    /\ Matching(resp.user_id, resp.days) = {}
    /\ OwnLogs(resp.user_id) # <<>>
    /\ \E v \in Users : Matching(v, resp.days) # {}

\* C4: for a non-empty set of matching logs, Summary.total_tokens is the sum of
\* their total_tokens, total_cost is the sum of the estimated_cost of their
\* CostLogs (to 4 decimals) and average_latency is the mean of their latency_ms
\* (to 2 decimals).
C4_SummarySums ==
    (resp.op = "summary" /\ Matching(resp.user_id, resp.days) # {}) =>
        LET M == Matching(resp.user_id, resp.days)
        IN  /\ resp.value.total_tokens = TokensOf(M)
            /\ IsRounded(resp.value.total_cost, CostOf(M), 10000)
            /\ IsRounded(resp.value.average_latency, 100 * LatencyOf(M), Cardinality(M))

\* a summary over three logs with CostLogs whose mean latency and whose total
\* cost are not whole numbers of the units returned
C4_Witness ==
    /\ resp.op = "summary"
    /\ LET M == Matching(resp.user_id, resp.days)
       IN  /\ Cardinality(M) = 3
           /\ \A i \in M : HasCostLog(i)
           /\ (100 * LatencyOf(M)) % 3 # 0
           /\ CostOf(M) % 10000 # 0

\* C5: Summary.error_rate is 100 * (matching logs with status "error") /
\* (matching logs), to 2 decimals; a "timeout" log counts in the denominator
\* only; the value lies in [0, 100].
C5_SummaryErrorRate ==
    (resp.op = "summary" /\ Matching(resp.user_id, resp.days) # {}) =>
        LET M == Matching(resp.user_id, resp.days)
        IN  /\ IsRounded(resp.value.error_rate,
                         100 * 100 * Cardinality(ErrorsOf(M)), Cardinality(M))
            /\ resp.value.error_rate >= 0
            /\ resp.value.error_rate <= 100 * 100

\* a summary over an error, a timeout and a success
C5_Witness ==
    /\ resp.op = "summary"
    /\ LET M == Matching(resp.user_id, resp.days)
       IN  /\ \E i \in M : llm_call_logs[i].status = "error"
           /\ \E i \in M : llm_call_logs[i].status = "timeout"
           /\ \E i \in M : llm_call_logs[i].status = "success"

\* the CallLogs that have no CostLog, and a CostLog of cost 0 for each of them
MissingCost == {i \in 1..Len(llm_call_logs) : ~HasCostLog(i)}
ZeroCosts ==
    LET ids == SortAsc(MissingCost)
    IN  [k \in 1..Len(ids) |->
            [id |-> Len(cost_logs) + k, llm_call_id |-> ids[k], estimated_cost |-> 0]]

\* the sum of the tokens of the entries of a token-usage response
SeriesTokens(series) == SumSeq([i \in 1..Len(series) |-> series[i].tokens])

\* C6: a CallLog in the window without a CostLog counts as one of cost 0: every
\* response equals the result on the store in which each such CallLog is given
\* a CostLog of estimated_cost 0, and the log is counted in Summary.total_tokens
\* and in the per-date tokens.
C6_MissingCostIsZero ==
    resp # NoResp =>
        /\ resp.value = Aggregate(resp.op, llm_call_logs, cost_logs \o ZeroCosts,
                                  resp.user_id, resp.days, now)
        /\ resp.op = "summary" =>
               resp.value.total_tokens = TokensOf(Matching(resp.user_id, resp.days))
        /\ resp.op = "token_usage" =>
               SeriesTokens(resp.value) = TokensOf(Matching(resp.user_id, resp.days))

\* a token-usage response over a log without CostLog and, on the same date, a
\* log with one
C6_Witness ==
    /\ resp.op = "token_usage"
    /\ \E i, j \in Matching(resp.user_id, resp.days) :
           /\ ~HasCostLog(i)
           /\ HasCostLog(j)
           /\ DateOf(llm_call_logs[i].created_at) = DateOf(llm_call_logs[j].created_at)

\* C7: the counts returned by get_latency_distribution sum to the number of
\* matching logs.
C7_BucketsSum ==
    resp.op = "latency" =>
        SumSeq([i \in 1..Len(resp.value) |-> resp.value[i].count])
            = Cardinality(Matching(resp.user_id, resp.days))

\* a latency response over three logs, one of them of 1000 ms or more
C7_Witness ==
    /\ resp.op = "latency"
    /\ Cardinality(Matching(resp.user_id, resp.days)) = 3
    /\ \E i \in Matching(resp.user_id, resp.days) : llm_call_logs[i].latency_ms >= 1000

\* the lower bounds of the five buckets, and the bucket of a latency >= 0:
\* the last one whose lower bound is at or below it
BucketLower == <<0, 100, 200, 500, 1000>>
IntervalOf(latency_ms) ==
    CHOOSE i \in 1..Len(BucketLower) :
        /\ BucketLower[i] <= latency_ms
        /\ \A j \in 1..Len(BucketLower) : BucketLower[j] <= latency_ms => j <= i

\* C8: a matching log is counted in the bucket of the half-open, lower-inclusive
\* interval [0,100), [100,200), [200,500), [500,1000), [1000, inf) that holds its
\* latency: entry i counts exactly the matching logs whose latency is in
\* interval i.
C8_BucketIntervals ==
    resp.op = "latency" =>
        \A i \in 1..Len(BucketLower) :
            resp.value[i].count =
                Cardinality({j \in Matching(resp.user_id, resp.days) :
                                 IntervalOf(llm_call_logs[j].latency_ms) = i})

\* a latency response over logs whose latencies are lower bounds of buckets
C8_Witness ==
    /\ resp.op = "latency"
    /\ \E i, j \in Matching(resp.user_id, resp.days) :
           /\ llm_call_logs[i].latency_ms = 100
           /\ llm_call_logs[j].latency_ms \in {200, 500, 1000}

\* C9: get_latency_distribution returns five entries, "0-100ms", "100-200ms",
\* "200-500ms", "500-1000ms", "1000ms+" in this order, whatever the counts.
C9_FiveBuckets ==
    resp.op = "latency" =>
        [i \in 1..Len(resp.value) |-> resp.value[i].range]
            = <<"0-100ms", "100-200ms", "200-500ms", "500-1000ms", "1000ms+">>

\* a latency response with no matching log, on a store that holds logs
C9_Witness ==
    /\ resp.op = "latency"
    /\ Matching(resp.user_id, resp.days) = {}
    /\ llm_call_logs # <<>>
    /\ \A i \in 1..Len(resp.value) : resp.value[i].count = 0

\* C10: the dates returned by get_token_usage_over_time are strictly ascending.
C10_DatesAscending ==
    resp.op = "token_usage" =>
        \A i, j \in 1..Len(resp.value) :
            i < j => resp.value[i].date < resp.value[j].date

\* a token-usage response with two dates, one of them holding two logs
C10_Witness ==
    /\ resp.op = "token_usage"
    /\ Len(resp.value) = 2
    /\ Cardinality(Matching(resp.user_id, resp.days)) = 3

\* the matching CallLogs of a request for (u, d) created on a UTC date
MatchingOn(u, d, date) ==
    {i \in Matching(u, d) : DateOf(llm_call_logs[i].created_at) = date}

\* C11: every entry of get_token_usage_over_time has, for its date, tokens =
\* the sum of total_tokens of the matching logs created on that UTC date and
\* cost = the sum of the estimated_cost of their CostLogs (to 4 decimals), a log
\* without CostLog adding 0.
C11_PerDateSums ==
    resp.op = "token_usage" =>
        \A k \in 1..Len(resp.value) :
            LET D == MatchingOn(resp.user_id, resp.days, resp.value[k].date)
            IN  /\ resp.value[k].tokens = TokensOf(D)
                /\ IsRounded(resp.value[k].cost, CostOf(D), 10000)

\* a token-usage response with two dates; one date holds a log with a CostLog
\* of a cost that is no whole number of 1e-4 $ and a log without CostLog, the
\* other a log with a CostLog
C11_Witness ==
    /\ resp.op = "token_usage"
    /\ Len(resp.value) = 2
    /\ \E i, j, k \in Matching(resp.user_id, resp.days) :
           /\ DateOf(llm_call_logs[i].created_at) = DateOf(llm_call_logs[j].created_at)
           /\ DateOf(llm_call_logs[k].created_at) # DateOf(llm_call_logs[i].created_at)
           /\ HasCostLog(i) /\ CostOf({i}) % 10000 # 0
           /\ ~HasCostLog(j)
           /\ HasCostLog(k) /\ CostOf({k}) > 0

\* the UTC dates on which a request for (u, d) has a matching CallLog
MatchingDates(u, d) == {DateOf(llm_call_logs[i].created_at) : i \in Matching(u, d)}

\* C12: both time series are sparse: a date has an entry, and one only, iff at
\* least one matching log was created on it.  The entries of
\* get_error_rate_over_time ascend by date and total_requests is the number,
\* at least 1, of matching logs on the date.
C12_SparseSeries ==
    resp.op \in {"token_usage", "error_rate"} =>
        /\ {resp.value[k].date : k \in 1..Len(resp.value)}
               = MatchingDates(resp.user_id, resp.days)
        /\ Len(resp.value) = Cardinality(MatchingDates(resp.user_id, resp.days))
        /\ resp.op = "error_rate" =>
               /\ \A j, k \in 1..Len(resp.value) :
                      j < k => resp.value[j].date < resp.value[k].date
               /\ \A k \in 1..Len(resp.value) :
                      /\ resp.value[k].total_requests >= 1
                      /\ resp.value[k].total_requests =
                             Cardinality(MatchingOn(resp.user_id, resp.days,
                                                    resp.value[k].date))

\* an error-rate response for a window of two days in which the user has two
\* logs on one date and none on the date of the request, on which the other
\* user has one
C12_Witness ==
    /\ resp.op = "error_rate"
    /\ resp.days = 2
    /\ Len(resp.value) = 1
    /\ resp.value[1].total_requests = 2
    /\ resp.value[1].date < DateOf(now)
    /\ \E v \in Users \ {resp.user_id} : DateOf(now) \in MatchingDates(v, resp.days)

\* C13: every entry of get_error_rate_over_time has error_rate = 100 * (matching
\* logs of the date with status "error") / total_requests, to 2 decimals, a
\* value in [0, 100].
C13_PerDateErrorRate ==
    resp.op = "error_rate" =>
        \A k \in 1..Len(resp.value) :
            LET D == MatchingOn(resp.user_id, resp.days, resp.value[k].date)
            IN  /\ D # {}
                /\ IsRounded(resp.value[k].error_rate,
                             100 * 100 * Cardinality(ErrorsOf(D)), Cardinality(D))
                /\ resp.value[k].error_rate >= 0
                /\ resp.value[k].error_rate <= 100 * 100

\* an error-rate response with a date of three logs, one an error and one a
\* timeout: 33.33 %
C13_Witness ==
    /\ resp.op = "error_rate"
    /\ \E k \in 1..Len(resp.value) :
           LET D == MatchingOn(resp.user_id, resp.days, resp.value[k].date)
           IN  /\ Cardinality(D) = 3
               /\ Cardinality(ErrorsOf(D)) = 1
               /\ \E i \in D : llm_call_logs[i].status = "timeout"
               /\ resp.value[k].error_rate = 3333

\* the five operations
Operations == {"summary", "token_usage", "latency", "error_rate", "cost"}

\* time passes in a step that leaves the stores as they are
LaterSameStore ==
    /\ now' # now
    /\ llm_call_logs' = llm_call_logs
    /\ cost_logs' = cost_logs

\* C14 as stated: two invocations with the same user_id and days return the
\* same result when the stores did not change between them, even when they are
\* made at different times.  Over one step of the clock: whatever an
\* operation returns before a step that leaves the stores alone, it returns
\* after it.
C14_Idempotent ==
    [][LaterSameStore =>
           \A op \in Operations, u \in Users, d \in DaysValues :
               Aggregate(op, llm_call_logs', cost_logs', u, d, now')
                   = Aggregate(op, llm_call_logs, cost_logs, u, d, now)]_vars

\* C14 amended: two invocations with the same user_id and days, unchanged
\* stores and the same set of matching logs at both times (no log of the user
\* left the window in between) return the same result: the clock enters a
\* result through the window only.
C14_IdempotentSameWindow ==
    [][LaterSameStore =>
           \A op \in Operations, u \in Users, d \in DaysValues :
               Matching(u, d)' = Matching(u, d) =>
                   Aggregate(op, llm_call_logs', cost_logs', u, d, now')
                       = Aggregate(op, llm_call_logs, cost_logs, u, d, now)]_vars

\* the matching logs of a request for (u, d) made one tick ago
MatchingBefore(u, d) ==
    { i \in 1..Len(llm_call_logs) :
          /\ llm_call_logs[i].user_id = u
          /\ llm_call_logs[i].created_at >= (now - 1) - d * TicksPerDay }

\* a response computed just after midnight on a store no row of which was
\* written in this tick, for a user with logs in the window, none of which left
\* it in the last tick: the response is the one the same request got a tick
\* earlier, on the day before
C14_Witness ==
    /\ resp # NoResp
    /\ now > 0
    /\ DateOf(now) # DateOf(now - 1)
    /\ pending = {}
    /\ \A i \in 1..Len(llm_call_logs) : llm_call_logs[i].created_at < now
    /\ Matching(resp.user_id, resp.days) # {}
    /\ MatchingBefore(resp.user_id, resp.days) = Matching(resp.user_id, resp.days)
    /\ resp.value = Aggregate(resp.op, llm_call_logs, cost_logs,
                              resp.user_id, resp.days, now - 1)

\* the response models of the five operations: MetricsSummary,
\* List[TokenUsagePoint], List[LatencyDistributionPoint], List[ErrorRatePoint]
\* and the float of get_cost_summary
WellFormed(op, value) ==
    CASE op = "summary" ->
             value \in [total_tokens : Int, total_cost : Int,
                        average_latency : Int, error_rate : Int]
      [] op = "token_usage" ->
             value \in Seq([date : Int, tokens : Int, cost : Int])
      [] op = "latency" ->
             value \in Seq([range : STRING, count : Nat])
      [] op = "error_rate" ->
             value \in Seq([date : Int, error_rate : Int, total_requests : Nat])
      [] op = "cost" ->
             value \in Int

\* the number of logs a latency or error-rate response accounts for
LogsCounted(op, value) ==
    CASE op = "latency"    -> SumSeq([i \in 1..Len(value) |-> value[i].count])
      [] op = "error_rate" -> SumSeq([i \in 1..Len(value) |-> value[i].total_requests])

\* C15: totality under the interleaving of log-call with reads.  In every
\* reachable state of the stores, between the two commits of a log-call
\* included, each of the five operations returns a well-formed result for every
\* user_id and days; a read between the two commits counts the CallLog that
\* has no CostLog yet, at cost 0.
C15_TotalUnderInterleaving ==
    resp # NoResp =>
        /\ WellFormed(resp.op, resp.value)
        /\ \A i \in pending \cap Matching(resp.user_id, resp.days) :
               /\ ~HasCostLog(i)
               /\ resp.value =
                      Aggregate(resp.op, llm_call_logs,
                                Append(cost_logs, [id |-> Len(cost_logs) + 1,
                                                   llm_call_id |-> i, estimated_cost |-> 0]),
                                resp.user_id, resp.days, now)
               /\ resp.op = "summary" =>
                      /\ resp.value.total_tokens = TokensOf(Matching(resp.user_id, resp.days))
                      /\ IsRounded(resp.value.total_cost,
                                   CostOf(Matching(resp.user_id, resp.days) \ {i}), 10000)
               /\ resp.op = "token_usage" =>
                      /\ SeriesTokens(resp.value)
                             = TokensOf(Matching(resp.user_id, resp.days))
                      /\ \E k \in 1..Len(resp.value) :
                             resp.value[k].date = DateOf(llm_call_logs[i].created_at)
               /\ resp.op \in {"latency", "error_rate"} =>
                      LogsCounted(resp.op, resp.value)
                          = Cardinality(Matching(resp.user_id, resp.days))

\* a summary computed between the two commits of a log-call of the user, whose
\* model exists, over that CallLog and two logs with a CostLog of a cost above 0
C15_Witness ==
    /\ resp.op = "summary"
    /\ \E i \in pending \cap Matching(resp.user_id, resp.days) :
           /\ llm_call_logs[i].model_id \in DOMAIN llm_models
           /\ llm_call_logs[i].total_tokens > 0
    /\ Cardinality(Matching(resp.user_id, resp.days)) = 3
    /\ resp.value.total_cost > 0

\* the CostLog rows of CallLog i
CostLogRows(i) == {k \in 1..Len(cost_logs) : cost_logs[k].llm_call_id = i}

\* C16 as stated: in every committed state of the stores every CallLog has
\* exactly one CostLog, whichever write path made it; no reader sees a CallLog
\* without its CostLog.
C16_ExactlyOneCostLog ==
    \A i \in 1..Len(llm_call_logs) : Cardinality(CostLogRows(i)) = 1

\* C17: whatever the interleaving of log-call, call_llm, seed and init_db, no
\* two CostLogs have the same llm_call_id: a CallLog has at most one CostLog.
C17_AtMostOneCostLog ==
    \A j, k \in 1..Len(cost_logs) :
        cost_logs[j].llm_call_id = cost_logs[k].llm_call_id => j = k

\* the two CostLogs of the CallLogs of a seed for two days, and a third
\* CallLog, of a log-call that is between its commits
C17_Witness ==
    /\ Len(cost_logs) = 2
    /\ Len(llm_call_logs) = 3
    /\ pending # {}
    /\ \E i, j \in 1..Len(llm_call_logs) :
           /\ llm_call_logs[i].created_at < llm_call_logs[j].created_at
           /\ CostLogRows(i) # {} /\ CostLogRows(j) # {}

\* C18 as stated: every CostLog has estimated_cost = total_tokens / 1000 *
\* cost_per_1k_tokens of the model of its CallLog, and the value is never
\* negative, for every request that log-call accepts.
C18_CostFormula ==
    \A k \in 1..Len(cost_logs) :
        LET call == llm_call_logs[cost_logs[k].llm_call_id]
        IN  /\ call.model_id \in DOMAIN llm_models =>
                   1000 * cost_logs[k].estimated_cost
                       = call.total_tokens * llm_models[call.model_id]
            /\ cost_logs[k].estimated_cost >= 0

\* C19: the CallLog store is append-only.  No step of log-call, call_llm, seed,
\* init_db, a metrics endpoint or feedback removes a CallLog or changes a field
\* of one: every row, its id and created_at included, is after the step what it
\* was before.
C19_AppendOnly ==
    [][/\ Len(llm_call_logs') >= Len(llm_call_logs)
       /\ \A i \in 1..Len(llm_call_logs) : llm_call_logs'[i] = llm_call_logs[i]]_vars

\* a store filled by three write paths (a seeded log, a failed call_llm, a
\* log-call), with a feedback row, being read by a metrics endpoint
C19_Witness ==
    /\ Len(llm_call_logs) = MaxLogs
    /\ feedback # <<>>
    /\ resp # NoResp
    /\ \E i, j, k \in 1..Len(llm_call_logs) :
           /\ llm_call_logs[i].latency_ms = 20
           /\ llm_call_logs[j].total_tokens = 0 /\ llm_call_logs[j].status = "error"
           /\ llm_call_logs[k].status = "timeout"

\* the users.id a bearer token stands for, if its payload names a user that exists
TokenUsers(token) ==
    {n \in Users : decode_token(token) # <<>> /\ decode_token(token)[1].user_id = <<n>>}

\* C20: a metrics endpoint runs its aggregation only for an authenticated
\* caller and with the caller's own id.  A token that does not decode, has no
\* user_id or names a user that does not exist gets 401 and no aggregate; a
\* caller's response is the aggregate of their own id over their own rows,
\* whatever the other parameter, days, is, or the 422 of a rejected days with
\* no aggregate.
C20_OwnAggregatesOnly ==
    resp # NoResp =>
        IF TokenUsers(resp.token) = {}
        THEN /\ resp.status = 401
             /\ "value" \notin DOMAIN resp
        ELSE /\ resp.status \in {200, 422}
             /\ resp.status = 422 => "value" \notin DOMAIN resp
             /\ resp.status = 200 =>
                    /\ TokenUsers(resp.token) = {resp.user_id}
                    /\ resp.value = Aggregate(resp.op, llm_call_logs, cost_logs,
                                              resp.user_id, resp.days, now)
                    /\ resp.value = Aggregate(resp.op, OwnLogs(resp.user_id),
                                              OwnCosts(resp.user_id),
                                              resp.user_id, resp.days, now)

\* a caller's response while the other user has matching logs that would give
\* another result
C20_Witness ==
    /\ resp # NoResp
    /\ resp.status = 200
    /\ Matching(resp.user_id, resp.days) # {}
    /\ \E v \in Users \ {resp.user_id} :
           /\ Matching(v, resp.days) # {}
           /\ resp.value # Aggregate(resp.op, llm_call_logs, cost_logs, v, resp.days, now)


\* the routes of the settings surface
SettingsOps == {"get_settings", "update_settings"}

\* this step is the response of a settings route
SettingsResponse ==
    /\ resp = NoResp
    /\ resp' # NoResp
    /\ resp'.op \in SettingsOps

\* this step is init_db's first commit with a settings row in its session
InitDbSettingsCommit ==
    \E c \in creating :
        /\ c.op = "init_db"
        /\ c.phase = "catalog"
        /\ c.add_settings
        /\ c \notin creating'

\* C21: a GET /settings or PUT /settings whose caller is a user with a role
\* other than admin is answered 403 and leaves system_settings as it was; a
\* settings route answers 200 only to an admin; and system_settings changes
\* only in the response step of a settings route that answers 200 to an
\* admin, or in init_db's own commit at start-up
C21_SettingsRequireAdmin ==
    [][ /\ SettingsResponse =>
              LET current_user == get_current_user(resp'.token)
              IN  /\ (current_user.status = 200 /\ users[current_user.id].role # "admin")
                         => (resp'.status = 403 /\ system_settings' = system_settings)
                  /\ resp'.status = 200
                         => (current_user.status = 200 /\ users[current_user.id].role = "admin")
        /\ system_settings' # system_settings =>
              \/ InitDbSettingsCommit
              \/ SettingsResponse /\ resp'.status = 200
      ]_vars

\* C21 witness: a viewer's PUT /settings was answered 403 on a store whose row
\* an admin's PUT had updated before
C21_Witness ==
    /\ resp # NoResp
    /\ resp.op = "update_settings"
    /\ resp.status = 403
    /\ resp.request.max_tokens_per_request # <<>>
    /\ \E i \in DOMAIN system_settings :
           /\ system_settings[i].updated_by # <<>>
           /\ system_settings[i].max_tokens_per_request = 4096


\* C22: the cost endpoint serves a total_cost only to a caller whose role is
\* admin
C22_CostAdminOnly ==
    (resp # NoResp /\ resp.op = "cost" /\ resp.status = 200)
        => users[resp.user_id].role = "admin"

\* the metrics responses of requests that passed the dependency: they carry
\* the days parameter of the request
DaysChecked == resp # NoResp /\ "query" \in DOMAIN resp

\* C23: a metrics endpoint runs only with days in 1..365, the value of the
\* request or 30 when the request has none, and its response is the
\* aggregate for that value; a request is answered 422, without an aggregate,
\* exactly when its days is below 1 or above 365
C23_DaysValidated ==
    DaysChecked =>
        /\ resp.status \in {200, 422}
        /\ resp.status = 200 =>
               /\ resp.days \in 1..365
               /\ resp.days = (IF resp.query = <<>> THEN 30 ELSE resp.query[1])
               /\ resp.value = Aggregate(resp.op, llm_call_logs, cost_logs,
                                         resp.user_id, resp.days, now)
        /\ resp.status = 422 <=>
               (resp.query # <<>> /\ (resp.query[1] < 1 \/ resp.query[1] > 365))
        /\ resp.status = 422 => "value" \notin DOMAIN resp

\* C23 witness: a request with days = 366 was answered 422 while the store
\* holds logs, and one without days ran with 30
C23_Witness ==
    /\ DaysChecked
    /\ llm_call_logs # <<>>
    /\ \/ resp.status = 422 /\ resp.query = <<366>>
       \/ resp.status = 200 /\ resp.query = <<>> /\ resp.days = 30


\* C24: an invocation of call_llm that has appended its CallLog appends no
\* other: when it leaves call_llm, with or without its CostLog, the store
\* holds the CallLogs it held
C24_OneCallLogPerInvocation ==
    [][ \A id \in wrapper_pending :
            id \notin wrapper_pending' => llm_call_logs' = llm_call_logs ]_vars

\* the CallLogs whose error_message and status disagree
Unexplained ==
    { i \in DOMAIN llm_call_logs :
          (llm_call_logs[i].error_message # <<>>) # (llm_call_logs[i].status # "success") }

\* C25: every CallLog has an error_message if and only if its status is not
\* "success"
C25_ErrorMessageIffNotSuccess ==
    Unexplained = {}


\* C26: the SystemSettings store holds at most one row, and a settings route
\* that answers 200 serves that row
C26_SingleSettingsRow ==
    /\ Len(system_settings) <= 1
    /\ (resp # NoResp /\ resp.op \in SettingsOps /\ resp.status = 200)
           => resp.value = system_settings[1]


\* the value a settings field has after a PUT: the requested one, or the
\* previous one when the request leaves the field None
Updated(requested, previous) ==
    IF requested = <<>> THEN previous ELSE requested[1]

\* C27: a PUT /settings answered 200 is an admin's; of the row it serves, each
\* of the three fields that the request leaves None has the value stored
\* before (the column default when the PUT created the row), each field the
\* request provides has the requested value, updated_by is the caller's id,
\* and no other row is touched
C27_UpdatesProvidedFieldsOnly ==
    [][ (SettingsResponse /\ resp'.op = "update_settings" /\ resp'.status = 200) =>
            /\ users[resp'.user_id].role = "admin"
            /\ \E i \in DOMAIN system_settings' :
                   LET previous == IF i \in DOMAIN system_settings
                                   THEN system_settings[i]
                                   ELSE DefaultSettings(i)
                       row == system_settings'[i]
                   IN  /\ resp'.value = row
                       /\ row.id = previous.id
                       /\ row.claude_haiku_45_enabled =
                              Updated(resp'.request.claude_haiku_45_enabled,
                                      previous.claude_haiku_45_enabled)
                       /\ row.max_tokens_per_request =
                              Updated(resp'.request.max_tokens_per_request,
                                      previous.max_tokens_per_request)
                       /\ row.enable_caching =
                              Updated(resp'.request.enable_caching, previous.enable_caching)
                       /\ row.updated_by = <<resp'.user_id>>
                       /\ \A j \in DOMAIN system_settings :
                              j # i => system_settings'[j] = system_settings[j]
      ]_vars

\* C27 witness: a PUT that provided enable_caching alone was served a row that
\* keeps the max_tokens_per_request and claude_haiku_45_enabled of an earlier
\* PUT
C27_Witness ==
    /\ resp # NoResp
    /\ resp.op = "update_settings"
    /\ resp.status = 200
    /\ resp.request = [claude_haiku_45_enabled |-> <<>>, max_tokens_per_request |-> <<>>,
                       enable_caching |-> <<FALSE>>]
    /\ resp.value.max_tokens_per_request = 1024
    /\ resp.value.claude_haiku_45_enabled = TRUE
    /\ resp.value.enable_caching = FALSE
    /\ resp.value.updated_by = <<resp.user_id>>
    /\ resp.value \in {system_settings[i] : i \in DOMAIN system_settings}


\* C28: on one store and at one instant, get_cost_summary and the total_cost
\* of get_summary_metrics are the same for the same user_id and days: the
\* response of either operation carries the total the other computes
C28_CostEqualsSummaryCost ==
    /\ resp.op = "cost" =>
           resp.value = get_summary_metrics(llm_call_logs, cost_logs,
                                            resp.user_id, resp.days, now).total_cost
    /\ resp.op = "summary" =>
           resp.value.total_cost = get_cost_summary(llm_call_logs, cost_logs,
                                                    resp.user_id, resp.days, now)

\* C28 witness: a cost response above 0 for a user who has a matching log
\* without CostLog as well, while the other user has a log with a CostLog of
\* cost above 0
C28_Witness ==
    /\ resp.op = "cost"
    /\ resp.value > 0
    /\ \E i \in Matching(resp.user_id, resp.days) : ~HasCostLog(i)
    /\ \E j \in DOMAIN cost_logs :
           /\ cost_logs[j].estimated_cost > 0
           /\ llm_call_logs[cost_logs[j].llm_call_id].user_id # resp.user_id

\* the sum of total_requests over the entries of an error-rate response
SeriesRequests(series) == SumSeq([i \in 1..Len(series) |-> series[i].total_requests])

\* the sum of the counts of a latency distribution
BucketCounts(items) == SumSeq([i \in 1..Len(items) |-> items[i].count])

\* C29: on one store, which holds at most one CostLog per CallLog, and for the
\* same user_id and days: the tokens of the get_token_usage_over_time entries
\* sum to the total_tokens of get_summary_metrics, and the total_requests of
\* the get_error_rate_over_time entries sum to the sum of the
\* get_latency_distribution counts, the number of matching logs
C29_CrossOperationTotals ==
    /\ resp.op = "token_usage" =>
           SeriesTokens(resp.value) =
               get_summary_metrics(llm_call_logs, cost_logs,
                                   resp.user_id, resp.days, now).total_tokens
    /\ resp.op = "summary" =>
           resp.value.total_tokens =
               SeriesTokens(get_token_usage_over_time(llm_call_logs, cost_logs,
                                                      resp.user_id, resp.days, now))
    /\ resp.op = "error_rate" =>
           /\ SeriesRequests(resp.value) =
                  BucketCounts(get_latency_distribution(llm_call_logs, cost_logs,
                                                        resp.user_id, resp.days, now))
           /\ SeriesRequests(resp.value) = Cardinality(Matching(resp.user_id, resp.days))
    /\ resp.op = "latency" =>
           BucketCounts(resp.value) =
               SeriesRequests(get_error_rate_over_time(llm_call_logs, cost_logs,
                                                       resp.user_id, resp.days, now))

\* C29 witness: a token-usage response of two dates over the two matching
\* logs, each with its CostLog, on a store that holds a third log, which does
\* not match
C29_Witness ==
    /\ resp.op = "token_usage"
    /\ Len(resp.value) = 2
    /\ Cardinality(Matching(resp.user_id, resp.days)) = 2
    /\ Cardinality({i \in Matching(resp.user_id, resp.days) : HasCostLog(i)}) = 2
    /\ Len(llm_call_logs) = 3
    /\ SeriesTokens(resp.value) > 0


\* the state a completed run of init_db leaves: both accounts, the five
\* models, a settings row and CallLogs exist
InitDbComplete ==
    /\ AdminEmail \in Emails
    /\ ViewerEmail \in Emails
    /\ \A i \in DOMAIN models_to_add : models_to_add[i].name \in ModelNames
    /\ system_settings # <<>>
    /\ llm_call_logs # <<>>

\* this step is a step of a run of init_db: its queries, its first commit or
\* its seeding
InitDbStep ==
    \/ \E c \in creating' \ creating : c.op = "init_db"
    \/ \E c \in creating \ creating' : c.op = "init_db"

\* this step is the last of a run of init_db that was not rolled back
InitDbCompletes ==
    \E c \in creating \ creating' : c.op = "init_db" /\ c.phase = "seed"

\* the CallLogs of a user in a store
LogsOfUser(logs, u) == {i \in DOMAIN logs : logs[i].user_id = u}

\* C30: a run of init_db that is not rolled back leaves a state with both
\* accounts, the five models, a settings row and CallLogs; in such a state no
\* step of a run of init_db adds a user, a model, a settings row, a CallLog or
\* a CostLog; and a step of init_db that adds CallLogs finds the CallLog store
\* empty and leaves InitDbDays * InitDbPerDay logs for each of the two
\* accounts, each log with exactly one CostLog
C30_InitDbIdempotent ==
    [][ InitDbStep =>
            /\ InitDbCompletes => InitDbComplete'
            /\ InitDbComplete =>
                   UNCHANGED <<users, models, system_settings, llm_call_logs, cost_logs>>
            /\ llm_call_logs' # llm_call_logs =>
                   /\ llm_call_logs = <<>>
                   /\ \A u \in UserIdsByEmail(AdminEmail) \cup UserIdsByEmail(ViewerEmail) :
                          Cardinality(LogsOfUser(llm_call_logs', u)) = InitDbDays * InitDbPerDay
                   /\ Len(llm_call_logs') = 2 * InitDbDays * InitDbPerDay
                   /\ \A i \in DOMAIN llm_call_logs' :
                          Cardinality({k \in DOMAIN cost_logs' :
                                          cost_logs'[k].llm_call_id = llm_call_logs'[i].id}) = 1
                   /\ Len(cost_logs') = Len(llm_call_logs')
      ]_vars

\* C30 witness: a second run of init_db, which found every row, has made its
\* first commit on the store the first run seeded
C30_Witness ==
    /\ InitDbComplete
    /\ Len(llm_call_logs) = 2 * InitDbDays * InitDbPerDay
    /\ Len(cost_logs) = Len(llm_call_logs)
    /\ Len(users) = 2
    /\ Len(models) = Len(models_to_add)
    /\ Len(system_settings) = 1
    /\ \E c \in creating :
           /\ c.op = "init_db"
           /\ c.phase = "seed"
           /\ c.add_users = <<>>
           /\ c.add_models = <<>>
           /\ ~c.add_settings

====
